---------------------------- MODULE Spec2Model ----------------------------
(***************************************************************************)
(* The equation system of the MIMOSA integrated assessment model: the      *)
(* Cobb-Douglas economic block (model/components/cobbdouglas.py) and the   *)
(* COACCH damage block (model/components/damages/coacch.py).               *)
(*                                                                         *)
(* Each block's get_constraints(m) declares components on the shared model *)
(* context m and returns rules (lambdas) that the optimisation layer       *)
(* evaluates at every (t, r).  A rule yields an equality that the solver   *)
(* has to satisfy.  The model keeps the context (declared components,      *)
(* registered rules, parameter data), the solver's variable values and the *)
(* outcome of each rule at each (t, r).                                    *)
(*                                                                         *)
(* Numbers are exact rationals [n |-> numerator, d |-> denominator > 0] in *)
(* lowest terms, so that equalities between expressions are decided, not   *)
(* approximated.  A Python exception is the record [err |-> name].         *)
(***************************************************************************)
EXTENDS Integers, Sequences, FiniteSets, TLC

VARIABLES
    declared,     \* names of the components set on the context m
    constraints,  \* names of the rules returned so far, in order
    par,          \* values of the Params and of the exogenous series
    x,            \* values of the Vars: x[name][<<t, r>>]
    res           \* outcome of evaluating rule name at <<t, r>>

vars == <<declared, constraints, par, x, res>>

---------------------------------------------------------------------------
(* Rational arithmetic (Python float arithmetic taken exactly).            *)

Abs(i) == IF i < 0 THEN -i ELSE i

RECURSIVE GCD(_, _)
GCD(a, b) == IF b = 0 THEN a ELSE GCD(b, a % b)

\* n/d in lowest terms with a positive denominator (d # 0).
R(n, d) ==
    LET g == GCD(Abs(n), Abs(d))
        s == IF d < 0 THEN -1 ELSE 1
    IN  [n |-> (s * n) \div g, d |-> (s * d) \div g]

I(i) == [n |-> i, d |-> 1]

Err(name) == [err |-> name]

None == [none |-> TRUE]

IsNum(v) == DOMAIN v = {"n", "d"}

IsErr(v) == DOMAIN v = {"err"}

\* The arithmetic operators hand on an operand that is not a number (an
\* exception, or a missing value), the left operand's first, as Python's
\* evaluation order does.
RNeg(a) == IF ~IsNum(a) THEN a ELSE [n |-> -a.n, d |-> a.d]

RAdd(a, b) ==
    IF ~IsNum(a) THEN a ELSE IF ~IsNum(b) THEN b
    ELSE R(a.n * (b.d \div GCD(a.d, b.d)) + b.n * (a.d \div GCD(a.d, b.d)),
           (a.d \div GCD(a.d, b.d)) * b.d)

RSub(a, b) == RAdd(a, RNeg(b))

RMul(a, b) ==
    IF ~IsNum(a) THEN a ELSE IF ~IsNum(b) THEN b
    ELSE R((a.n \div GCD(Abs(a.n), b.d)) * (b.n \div GCD(Abs(b.n), a.d)),
           (a.d \div GCD(Abs(b.n), a.d)) * (b.d \div GCD(Abs(a.n), b.d)))

\* a / b; Python raises ZeroDivisionError when b is zero.
RDiv(a, b) ==
    IF ~IsNum(a) THEN a ELSE IF ~IsNum(b) THEN b
    ELSE IF b.n = 0 THEN Err("ZeroDivisionError") ELSE RMul(a, R(b.d, b.n))

RLe(a, b) == a.n * b.d <= b.n * a.d

RLt(a, b) == a.n * b.d < b.n * a.d

\* The largest k in lo..hi with k * k <= i (bisection).
RECURSIVE Root(_, _, _)
Root(lo, hi, i) ==
    IF lo >= hi THEN lo
    ELSE LET mid == (lo + hi + 1) \div 2
         IN  IF mid * mid <= i THEN Root(mid, hi, i) ELSE Root(lo, mid - 1, i)

\* The integer square root of a perfect square, -1 for any other number.
ISqrt(i) ==
    LET k == Root(0, IF i < 46340 THEN i ELSE 46340, i)
    IN  IF k * k = i THEN k ELSE -1

RECURSIVE IPow(_, _)
IPow(base, k) == IF k = 0 THEN I(1) ELSE RMul(base, IPow(base, k - 1))

\* The square root of a rational whose numerator and denominator are
\* perfect squares (only then used).
RSqrt(a) == R(ISqrt(a.n), ISqrt(a.d))

\* base ** e for base >= 0 and an exponent e that is a multiple of 1/2.
\* Python: 0 ** 0 = 1 and 0.0 ** negative raises ZeroDivisionError.  A root
\* that is not rational has no value in this arithmetic: [nar |-> TRUE].
RPow(base, e) ==
    IF ~IsNum(base) THEN base
    ELSE IF e.n = 0 THEN I(1)
    ELSE IF e.d = 2 /\ (ISqrt(base.n) < 0 \/ ISqrt(base.d) < 0)
    THEN [nar |-> TRUE]
    ELSE IF e.n < 0 /\ base.n = 0 THEN Err("ZeroDivisionError")
    ELSE IF e.n < 0
    THEN RDiv(I(1), IPow(IF e.d = 2 THEN RSqrt(base) ELSE base, -e.n))
    ELSE IPow(IF e.d = 2 THEN RSqrt(base) ELSE base, e.n)

---------------------------------------------------------------------------
(* Strings as sequences of characters: Python's `sub in s`.                *)

Contains(sub, s) ==
    \E i \in 1..(Len(s) - Len(sub) + 1) : SubSeq(s, i, i + Len(sub) - 1) = sub

Linear == <<"L","i","n","e","a","r">>
Quadratic == <<"Q","u","a","d","r","a","t","i","c">>
Logistic == <<"L","o","g","i","s","t","i","c">>

---------------------------------------------------------------------------
(* model.common helpers used by the two blocks.                            *)

\* soft_max(x, maxval, scale): the smooth ceiling, taken as the min it
\* approximates.
soft_max(xv, maxval) ==
    IF ~IsNum(xv) THEN xv ELSE IF RLe(xv, maxval) THEN xv ELSE maxval

\* soft_min(x, scale): the smooth floor at zero, taken as the max it
\* approximates.
soft_min(xv) ==
    IF ~IsNum(xv) THEN xv ELSE IF RLe(I(0), xv) THEN xv ELSE I(0)

\* exp at the integer exponents the model's inputs produce, to two
\* significant digits; exp(-k) = 1 / exp(k).
ExpTable ==
    <<R(27, 10), R(37, 5), I(20), I(55), I(150), I(400), I(1100), I(3000),
      I(8100), I(22000)>>

exp(e) ==
    IF e.n = 0 THEN I(1)
    ELSE IF e.n > 0 THEN ExpTable[e.n]
    ELSE RDiv(I(1), ExpTable[-e.n])

---------------------------------------------------------------------------
(* coacch.py: the damage functions.                                        *)

ExpCap == 10

\* logistic(x, b1, b2, b3)
logistic_NoNormalisation(xv, b1, b2, b3) ==
    RDiv(b1, RAdd(I(1),
                  RMul(b2, exp(soft_max(RMul(RNeg(b3), xv), I(ExpCap))))))

logistic(xv, b1, b2, b3) ==
    RSub(RDiv(b1, RAdd(I(1),
                       RMul(b2, exp(soft_max(RMul(RNeg(b3), xv),
                                             I(ExpCap)))))),
         RDiv(b1, RAdd(I(1), b2)))

\* The three formulas of functional_form.
LinearForm(xv, a, b1) == RDiv(RMul(RMul(a, b1), xv), I(100))

QuadraticForm(xv, a, b1, b2) ==
    RDiv(RMul(a, RAdd(RMul(b1, xv), RMul(b2, RMul(xv, xv)))), I(100))

LogisticForm(xv, a, b1, b2, b3) ==
    RDiv(RMul(a, logistic(xv, b1, b2, b3)), I(100))

\* The coefficients functional_form reads: region r's, of the channel asked.
Coefs(m, r, is_slr) ==
    IF is_slr
    THEN [form |-> m.damage_slr_form[r], a |-> m.damage_slr_a[r],
          b1 |-> m.damage_slr_b1[r], b2 |-> m.damage_slr_b2[r],
          b3 |-> m.damage_slr_b3[r]]
    ELSE [form |-> m.damage_noslr_form[r], a |-> m.damage_noslr_a[r],
          b1 |-> m.damage_noslr_b1[r], b2 |-> m.damage_noslr_b2[r],
          b3 |-> m.damage_noslr_b3[r]]

\* functional_form(x, m, r, is_slr)
Dispatch_FallThrough(xv, c) ==
    IF Contains(Quadratic, c.form) THEN QuadraticForm(xv, c.a, c.b1, c.b2)
    ELSE IF Contains(Logistic, c.form)
    THEN LogisticForm(xv, c.a, c.b1, c.b2, c.b3)
    ELSE LinearForm(xv, c.a, c.b1)

Dispatch(xv, c) ==
    IF Contains(Linear, c.form) THEN LinearForm(xv, c.a, c.b1)
    ELSE IF Contains(Quadratic, c.form)
    THEN QuadraticForm(xv, c.a, c.b1, c.b2)
    ELSE IF Contains(Logistic, c.form)
    THEN LogisticForm(xv, c.a, c.b1, c.b2, c.b3)
    ELSE Err("NotImplementedError")

functional_form(xv, m, r, is_slr) == Dispatch(xv, Coefs(m, r, is_slr))

\* damage_fct(x, x0, m, r, is_slr); x0 is None for the SLR channel.
damage_fct_NoAnchor(xv, x0, m, r, is_slr) == functional_form(xv, m, r, is_slr)

damage_fct(xv, x0, m, r, is_slr) ==
    IF x0 # None
    THEN RSub(functional_form(xv, m, r, is_slr),
              functional_form(x0, m, r, is_slr))
    ELSE functional_form(xv, m, r, is_slr)

---------------------------------------------------------------------------
(* The index sets of the context: m.t and m.regions.                       *)

MaxT == 1

Time == 0..MaxT

RegionSeq == <<"r1", "r2">>

Regions == {RegionSeq[i] : i \in 1..Len(RegionSeq)}

Cells == Time \X Regions

ROrd(r) == CHOOSE i \in 1..Len(RegionSeq) : RegionSeq[i] = r

\* The order in which an indexed rule is evaluated: t by t, region by region.
Before(c1, c2) ==
    \/ c1[1] < c2[1]
    \/ c1[1] = c2[1] /\ ROrd(c1[2]) < ROrd(c2[2])

Range(f) == {f[i] : i \in DOMAIN f}

---------------------------------------------------------------------------
(* model.common.economics, and cobbdouglas.py: the economic block.         *)

\* calc_GDP(TFP, L, K, alpha): Cobb-Douglas output.
calc_GDP(TFP, L, K, alpha) ==
    RMul(TFP, RMul(RPow(L, RSub(I(1), alpha)), RPow(K, alpha)))

\* calc_dKdt(K, dk, I, dt): net investment, dK/dt = I - dk * K.
calc_dKdt(K, dk, inv, dt) == RSub(inv, RMul(dk, K))

\* calc_utility(consumption, population, elasmu)
calc_utility(consumption, population, elasmu) ==
    RSub(RDiv(RSub(RPow(soft_min(RDiv(consumption, population)),
                        RSub(I(1), elasmu)),
                   I(1)),
              RSub(I(1), elasmu)),
         I(1))

\* initialize= of m.capital_stock
capital_stock_initialize_NoFactor(m, t, r) == m.GDP[<<t, r>>]

capital_stock_initialize(m, t, r) ==
    RMul(m.init_capitalstock_factor[r], m.GDP[<<t, r>>])

\* initialize= of m.GDP_gross
GDP_gross_initialize(m, t, r) == m.GDP[<<0, r>>]

\* Rule "GDP_gross"
GDP_gross_rule(m, xx, t, r) ==
    calc_GDP(m.TFP[<<t, r>>], m.L[<<t, r>>],
             soft_min(xx.capital_stock[<<t, r>>]), m.alpha)

\* Rule "GDP_net".  m.damage_costs is read only when ignore_damages is unset;
\* reading a component that no block has declared raises AttributeError.
GDP_net_rule_EagerRead(m, dec, xx, t, r) ==
    IF "damage_costs" \notin dec THEN Err("AttributeError")
    ELSE RSub(RMul(xx.GDP_gross[<<t, r>>],
                   RSub(I(1), IF ~m.ignore_damages
                              THEN xx.damage_costs[<<t, r>>] ELSE I(0))),
              m.abatement_costs[<<t, r>>])

GDP_net_rule_FlagInverted(m, dec, xx, t, r) ==
    IF m.ignore_damages /\ "damage_costs" \notin dec
    THEN Err("AttributeError")
    ELSE RSub(RMul(xx.GDP_gross[<<t, r>>],
                   RSub(I(1), IF m.ignore_damages
                              THEN xx.damage_costs[<<t, r>>] ELSE I(0))),
              m.abatement_costs[<<t, r>>])

GDP_net_rule_AbatementAdded(m, dec, xx, t, r) ==
    IF ~m.ignore_damages /\ "damage_costs" \notin dec
    THEN Err("AttributeError")
    ELSE RAdd(RMul(xx.GDP_gross[<<t, r>>],
                   RSub(I(1), IF ~m.ignore_damages
                              THEN xx.damage_costs[<<t, r>>] ELSE I(0))),
              m.abatement_costs[<<t, r>>])

GDP_net_rule(m, dec, xx, t, r) ==
    IF ~m.ignore_damages /\ "damage_costs" \notin dec
    THEN Err("AttributeError")
    ELSE RSub(RMul(xx.GDP_gross[<<t, r>>],
                   RSub(I(1), IF ~m.ignore_damages
                              THEN xx.damage_costs[<<t, r>>] ELSE I(0))),
              m.abatement_costs[<<t, r>>])

\* Rule "GDP_less_mit"
GDP_less_mit_rule(m, xx, t, r) ==
    RSub(xx.GDP_gross[<<t, r>>], m.abatement_costs[<<t, r>>])

\* Rule "investments"
investments_rule(m, xx, t, r) == RMul(m.sr, xx.GDP_net[<<t, r>>])

\* Rule "consumption"
consumption_rule_GrossShare(m, xx, t, r) ==
    RMul(RSub(I(1), m.sr), xx.GDP_gross[<<t, r>>])

consumption_rule(m, xx, t, r) ==
    RMul(RSub(I(1), m.sr), xx.GDP_net[<<t, r>>])

\* Rule "utility_less_mitigation_costs"
utility_less_mit_rule(m, xx, t, r) ==
    calc_utility(RMul(RSub(I(1), m.sr), xx.GDP_less_mit[<<t, r>>]),
                 m.L[<<t, r>>], m.elasmu)

\* Rule "utility_original"
utility_original_rule(m, xx, t, r) ==
    calc_utility(xx.consumption[<<t, r>>], m.L[<<t, r>>], m.elasmu)

\* Rule "utility"
utility_rule_Swapped(m, xx, t, r) ==
    RSub(xx.utility_original[<<t, r>>],
         RMul(m.disutility_dmg_factor,
              RSub(xx.utility_original[<<t, r>>],
                   xx.utility_less_mit[<<t, r>>])))

utility_rule(m, xx, t, r) ==
    RSub(xx.utility_less_mit[<<t, r>>],
         RMul(m.disutility_dmg_factor,
              RSub(xx.utility_less_mit[<<t, r>>],
                   xx.utility_original[<<t, r>>])))

\* Rule "capital_stock": skipped at t = 0; for t > 0 an equality in which
\* capital_stock[t, r] stands on both sides.
capital_stock_rule_Explicit(m, xx, t, r) ==
    IF t > 0
    THEN IF xx.capital_stock[<<t, r>>]
            = RAdd(xx.capital_stock[<<t - 1, r>>],
                   RMul(m.dt, calc_dKdt(xx.capital_stock[<<t - 1, r>>], m.dk,
                                        xx.investments[<<t - 1, r>>], m.dt)))
         THEN "sat" ELSE "unsat"
    ELSE "Skip"

capital_stock_rule(m, xx, t, r) ==
    IF t > 0
    THEN IF xx.capital_stock[<<t, r>>]
            = RAdd(xx.capital_stock[<<t - 1, r>>],
                   RMul(m.dt, calc_dKdt(xx.capital_stock[<<t, r>>], m.dk,
                                        xx.investments[<<t, r>>], m.dt)))
         THEN "sat" ELSE "unsat"
    ELSE "Skip"

\* The RegionalInitConstraint on capital_stock[0, r].
capital_stock_init_rule(m, xx, r) ==
    IF xx.capital_stock[<<0, r>>]
       = RMul(m.init_capitalstock_factor[r], m.GDP[<<0, r>>])
    THEN "sat" ELSE "unsat"

---------------------------------------------------------------------------
(* The shared context and what each block puts on it.                      *)

\* What the context holds before either block runs (spec section 6).
BaseContext ==
    {"t", "regions", "year", "dt", "TFP", "L", "GDP", "temperature",
     "total_SLR", "T0", "abatement_costs"}

EconComponents ==
    {"init_capitalstock_factor", "capital_stock", "alpha", "dk", "sr",
     "elasmu", "disutility_dmg_factor", "GDP_gross", "GDP_net",
     "investments", "consumption", "utility", "GDP_less_mit",
     "utility_less_mit", "utility_original", "ignore_damages"}

DamageComponents ==
    {"damage_costs", "damage_scale_factor", "resid_damages",
     "damage_noslr_form", "damage_noslr_b1", "damage_noslr_b2",
     "damage_noslr_b3", "damage_noslr_a", "SLR_damages", "damage_slr_form",
     "damage_slr_b1", "damage_slr_b2", "damage_slr_b3", "damage_slr_a"}

EconRules ==
    <<"GDP_gross", "GDP_net", "GDP_less_mit", "investments", "consumption",
      "utility_less_mitigation_costs", "utility_original", "utility",
      "capital_stock", "capital_stock_init">>

DamageRules == <<"resid_damages", "SLR_damages", "damage_costs">>

EconVars ==
    {"capital_stock", "GDP_gross", "GDP_net", "investments", "consumption",
     "utility", "GDP_less_mit", "utility_less_mit", "utility_original"}

DamageVars == {"damage_costs", "resid_damages", "SLR_damages"}

VarNames == EconVars \cup DamageVars

RuleNames == Range(EconRules) \cup Range(DamageRules)

Exceptions == {"AttributeError", "NotImplementedError", "ZeroDivisionError"}

\* An exception raised by a rule ends the construction of the model.
NoException ==
    \A rule \in RuleNames, c \in Cells : res[rule][c] \notin Exceptions

Put(f, c, out) ==
    [rule \in RuleNames |->
        IF rule \in DOMAIN out THEN [f[rule] EXCEPT ![c] = out[rule]]
        ELSE f[rule]]

Set(xx, c, vals) ==
    [v \in VarNames |->
        IF v \in DOMAIN vals THEN [xx[v] EXCEPT ![c] = vals[v]] ELSE xx[v]]

---------------------------------------------------------------------------
(* The orchestrator calls the blocks; the optimisation layer evaluates the *)
(* registered rules cell by cell.                                          *)

\* cobbdouglas.get_constraints(m)
cobbdouglas_get_constraints ==
    /\ "capital_stock" \notin declared
    /\ declared' = declared \cup EconComponents
    /\ constraints' = constraints \o EconRules
    /\ x' = [x EXCEPT
               !.capital_stock =
                   [c \in Cells |-> capital_stock_initialize(par, c[1], c[2])],
               !.GDP_gross =
                   [c \in Cells |-> GDP_gross_initialize(par, c[1], c[2])]]
    /\ UNCHANGED <<par, res>>

\* coacch.get_constraints(m)
coacch_get_constraints ==
    /\ "damage_costs" \notin declared
    /\ declared' = declared \cup DamageComponents
    /\ constraints' = constraints \o DamageRules
    /\ UNCHANGED <<par, x, res>>

\* The outcome of the three rules of the damage block at c, given what the
\* first two require of resid_damages and SLR_damages.
DamageOut(xx, c, resid, slr) ==
    IF IsErr(resid)
    THEN [x |-> xx, out |-> [resid_damages |-> resid.err]]
    ELSE IF IsErr(slr)
    THEN [x   |-> Set(xx, c, [resid_damages |-> resid]),
          out |-> [resid_damages |-> "sat", SLR_damages |-> slr.err]]
    ELSE [x   |-> Set(xx, c, [resid_damages |-> resid, SLR_damages |-> slr,
                              damage_costs |-> RAdd(resid, slr)]),
          out |-> [resid_damages |-> "sat", SLR_damages |-> "sat",
                   damage_costs |-> "sat"]]

\* Rule "resid_damages"
resid_damages_rule(m, t, r) ==
    damage_fct(m.temperature[t], m.T0, m, r, FALSE)

\* Rule "SLR_damages"
SLR_damages_rule(m, t, r) == damage_fct(m.total_SLR[t], None, m, r, TRUE)

DamageCell(m, xx, t, r) ==
    DamageOut(xx, <<t, r>>, resid_damages_rule(m, t, r),
              SLR_damages_rule(m, t, r))

\* The solver takes over the outcome of a cell; a cell whose values this
\* arithmetic cannot express is left alone.
TakeCell(c, cell) ==
    /\ "x" \in DOMAIN cell
    /\ x' = cell.x
    /\ res' = Put(res, c, cell.out)

SolveDamages(t, r) ==
    /\ "damage_costs" \in Range(constraints)
    /\ res.resid_damages[<<t, r>>] = "none"
    /\ \A c0 \in Cells :
          Before(c0, <<t, r>>) => res.damage_costs[c0] = "sat"
    /\ NoException
    /\ TakeCell(<<t, r>>, DamageCell(par, x, t, r))
    /\ UNCHANGED <<declared, constraints, par>>

\* The RegionalInitConstraint at r, evaluated on the declared initial value.
SolveCapitalInit(r) ==
    /\ "capital_stock_init" \in Range(constraints)
    /\ res.capital_stock_init[<<0, r>>] = "none"
    /\ NoException
    /\ res' = Put(res, <<0, r>>,
                  [capital_stock_init |-> capital_stock_init_rule(par, x, r)])
    /\ UNCHANGED <<declared, constraints, par, x>>

\* The rules of the economic block in the order of the returned list, each
\* with the variable its equality determines.
CellRules ==
    <<"GDP_gross", "GDP_net", "GDP_less_mit", "investments", "consumption",
      "utility_less_mitigation_costs", "utility_original", "utility">>

CellVars ==
    <<"GDP_gross", "GDP_net", "GDP_less_mit", "investments", "consumption",
      "utility_less_mit", "utility_original", "utility">>

\* The first rule whose value is not a number, 0 when all are.
FirstBad(xn, c) ==
    IF \A i \in 1..Len(CellVars) : IsNum(xn[CellVars[i]][c]) THEN 0
    ELSE CHOOSE i \in 1..Len(CellVars) :
            /\ ~IsNum(xn[CellVars[i]][c])
            /\ \A j \in 1..(i - 1) : IsNum(xn[CellVars[j]][c])

\* The outcome at c: xn holds what the rules require given xx.  An exception
\* stops the evaluation at the rule that raised it.
EconOut(m, xx, xn, c, bad) ==
    IF bad = 0
    THEN [x   |-> xn,
          out |-> [i \in Range(CellRules) |-> "sat"] @@
                  [capital_stock |-> capital_stock_rule(m, xn, c[1], c[2])]]
    ELSE IF ~IsErr(xn[CellVars[bad]][c]) THEN [nar |-> TRUE]
    ELSE [x   |-> [v \in VarNames |->
                     IF \E j \in 1..(bad - 1) : CellVars[j] = v
                     THEN xn[v] ELSE IF v = "capital_stock" THEN xn[v]
                     ELSE xx[v]],
          out |-> [rule \in {CellRules[j] : j \in 1..bad} |->
                     IF rule = CellRules[bad] THEN xn[CellVars[bad]][c].err
                     ELSE "sat"]]

Econ6(m, xx, x6, c) == EconOut(m, xx, x6, c, FirstBad(x6, c))

Econ5(m, xx, x5, t, r) ==
    Econ6(m, xx, Set(x5, <<t, r>>, [utility |-> utility_rule(m, x5, t, r)]),
          <<t, r>>)

Econ4(m, xx, x4, t, r) ==
    Econ5(m, xx,
          Set(x4, <<t, r>>,
              [utility_less_mit |-> utility_less_mit_rule(m, x4, t, r),
               utility_original |-> utility_original_rule(m, x4, t, r)]),
          t, r)

Econ3(m, xx, x3, t, r) ==
    Econ4(m, xx,
          Set(x3, <<t, r>>,
              [investments |-> investments_rule(m, x3, t, r),
               consumption |-> consumption_rule(m, x3, t, r)]),
          t, r)

Econ2(m, dec, xx, x2, t, r) ==
    Econ3(m, xx,
          Set(x2, <<t, r>>,
              [GDP_net |-> GDP_net_rule(m, dec, x2, t, r),
               GDP_less_mit |-> GDP_less_mit_rule(m, x2, t, r)]),
          t, r)

Econ1(m, dec, xx, x1, t, r) ==
    Econ2(m, dec, xx,
          Set(x1, <<t, r>>, [GDP_gross |-> GDP_gross_rule(m, x1, t, r)]),
          t, r)

\* The rules of the economic block at (t, r) for the solver's value k of
\* capital_stock[t, r].
EconCell(m, dec, xx, t, r, k) ==
    Econ1(m, dec, xx, Set(xx, <<t, r>>, [capital_stock |-> k]), t, r)

MaxK == 4

\* The values the solver tries for capital_stock[t, r], t > 0.
KGrid == {R(n, 2) : n \in 0..(2 * MaxK)}

\* capital_stock[0, r] is what the init constraint accepted.
Guess(t, r) == IF t = 0 THEN {x.capital_stock[<<0, r>>]} ELSE KGrid

SolveEconomics(t, r, k) ==
    /\ "capital_stock" \in Range(constraints)
    /\ res.GDP_gross[<<t, r>>] = "none"
    /\ \A r0 \in Regions : res.capital_stock_init[<<0, r0>>] = "sat"
    /\ \A c0 \in Cells :
          Before(c0, <<t, r>>) => res.capital_stock[c0] \in {"Skip", "sat"}
    /\ "damage_costs" \in declared => IsNum(x.damage_costs[<<t, r>>])
    /\ k \in Guess(t, r)
    /\ NoException
    /\ TakeCell(<<t, r>>, EconCell(par, declared, x, t, r, k))
    /\ UNCHANGED <<declared, constraints, par>>

---------------------------------------------------------------------------
(* Parameter data.                                                         *)

Tags ==
    {Linear, Quadratic, Logistic,
     <<"R","o","b","u","s","t","-","L","i","n","e","a","r">>,
     <<"O","L","S","-","Q","u","a","d","r","a","t","i","c">>,
     <<"Q","u","a","d","r","a","t","i","c","-","L","o","g","i","s","t","i","c">>,
     <<"C","u","b","i","c">>,
     <<"l","i","n","e","a","r">>,
     <<"L","o","g">>}

Cfg(form, a, b1, b2, b3) ==
    [form |-> form, a |-> I(a), b1 |-> I(b1), b2 |-> I(b2), b3 |-> I(b3)]

\* Coefficient sets of one damage channel of one region.
WideCfgs ==
    {Cfg(form, a, b1, b2, b3) :
        form \in Tags, a \in {1, 2}, b1 \in {1, 3}, b2 \in {-1, 0, 1},
        b3 \in {-4, 0, 1}}

\* Temperature and sea-level paths: T0, temperature[t] = base + rate * t,
\* total_SLR[t] = slr * t.
Clim(T0, base, rate, slr) ==
    [T0 |-> I(T0),
     temperature |-> [t \in Time |-> I(base + rate * t)],
     total_SLR |-> [t \in Time |-> I(slr * t)]]

\* The damage parameters on the context: noslr and slr map each region to
\* its channel's coefficient set.
DamagePar(noslr, slr, clim) ==
    [damage_noslr_form |-> [r \in Regions |-> noslr[r].form],
     damage_noslr_a    |-> [r \in Regions |-> noslr[r].a],
     damage_noslr_b1   |-> [r \in Regions |-> noslr[r].b1],
     damage_noslr_b2   |-> [r \in Regions |-> noslr[r].b2],
     damage_noslr_b3   |-> [r \in Regions |-> noslr[r].b3],
     damage_slr_form   |-> [r \in Regions |-> slr[r].form],
     damage_slr_a      |-> [r \in Regions |-> slr[r].a],
     damage_slr_b1     |-> [r \in Regions |-> slr[r].b1],
     damage_slr_b2     |-> [r \in Regions |-> slr[r].b2],
     damage_slr_b3     |-> [r \in Regions |-> slr[r].b3]] @@ clim

\* The economic parameters and exogenous series.  The regions differ in
\* population, baseline GDP and calibration factor.
EconPar(alpha, sr, dk, dt, elasmu, duf, ign, tfp, ab) ==
    [alpha |-> alpha, sr |-> sr, dk |-> dk, dt |-> I(dt), elasmu |-> elasmu,
     disutility_dmg_factor |-> duf, ignore_damages |-> ign,
     init_capitalstock_factor |->
         [r \in Regions |-> IF r = "r1" THEN I(4) ELSE R(1, 4)],
     TFP |-> [c \in Cells |-> I(tfp)],
     L   |-> [c \in Cells |-> IF c[2] = "r1" THEN I(1) ELSE I(4)],
     GDP |-> [c \in Cells |-> IF c[2] = "r1" THEN I(1 + c[1]) ELSE I(4 + c[1])],
     abatement_costs |-> [c \in Cells |-> I(ab)]]

DefaultEcon ==
    EconPar(R(1, 2), R(1, 2), R(1, 2), 1, I(2), R(1, 2), FALSE, 1, 0)

DefaultCfg == Cfg(Linear, 1, 1, 0, 0)

\* Damage scenarios of the coupled model: temperature-driven damages of
\* 0 and 1/2 of output; the quadratic form at x = 10 (damages of all of
\* output) with a logistic sea-level channel; no damages at all.
DamageCases ==
    {DamagePar([r \in Regions |-> Cfg(Linear, 1, 25, 0, 0)],
               [r \in Regions |-> Cfg(Linear, 1, 0, 0, 0)],
               Clim(1, 1, 2, 1)),
     DamagePar([r \in Regions |->
                   IF r = "r1" THEN Cfg(Quadratic, 1, 0, 1, 0)
                   ELSE Cfg(Linear, 1, 5, 0, 0)],
               [r \in Regions |-> Cfg(Logistic, 1, 1, 1, 1)],
               Clim(0, 10, 0, 1)),
     DamagePar([r \in Regions |-> Cfg(Linear, 0, 0, 0, 0)],
               [r \in Regions |-> Cfg(Quadratic, 0, 0, 0, 0)],
               Clim(0, 1, 1, 1))}

\* Capital accumulation: the technology and the time step varied.
GrowthCases ==
    {EconPar(alpha, sr, dk, dt, I(2), R(1, 2), FALSE, tfp, 0) @@ dmg :
        alpha \in {I(0), R(1, 2), I(1)}, sr \in {R(1, 5), R(1, 2)},
        dk \in {R(1, 10), R(1, 2)}, dt \in {1, 5}, tfp \in {1, 2},
        dmg \in DamageCases}

\* Net output: the sign of productivity, abatement and the damage switch.
NetCases ==
    {EconPar(alpha, R(1, 2), R(1, 2), 1, I(2), R(1, 2), ign, tfp, ab) @@ dmg :
        alpha \in {R(1, 2), I(1)}, ign \in BOOLEAN, tfp \in {-1, 1, 2},
        ab \in {0, 1}, dmg \in DamageCases}

\* Utility: the elasticity and the damage share of disutility.
WelfareCases ==
    {EconPar(R(1, 2), R(1, 2), R(1, 2), 1, elasmu, duf, ign, 1, ab) @@ dmg :
        elasmu \in {I(0), R(3, 2), I(2)}, duf \in {I(0), R(1, 2), I(1)},
        ign \in BOOLEAN, ab \in {0, 1}, dmg \in DamageCases}

\* One channel of one region ranges over WideCfgs, the others are fixed.
ChannelCases ==
    {DefaultEcon @@
     DamagePar([r \in Regions |->
                   IF r = rr /\ ~is_slr THEN cfg ELSE DefaultCfg],
               [r \in Regions |->
                   IF r = rr /\ is_slr THEN cfg ELSE Cfg(Quadratic, 1, 1, 1, 0)],
               clim) :
        rr \in Regions, is_slr \in BOOLEAN, cfg \in WideCfgs,
        clim \in {Clim(T0, bs[1], bs[2], slr) :
                     T0 \in {0, 1}, bs \in {<<0, 1>>, <<1, 0>>, <<1, 2>>},
                     slr \in {3}}}

---------------------------------------------------------------------------
(* Specifications.                                                         *)

Start(cases) ==
    /\ declared = BaseContext
    /\ constraints = <<>>
    /\ par \in cases
    /\ x = [v \in VarNames |-> [c \in Cells |-> None]]
    /\ res = [rule \in RuleNames |-> [c \in Cells |-> "none"]]

\* The coupled model: both blocks, economic parameters varied.
Init == Start(GrowthCases \cup NetCases \cup WelfareCases)

Next ==
    \/ cobbdouglas_get_constraints
    \/ coacch_get_constraints
    \/ \E c \in Cells : SolveDamages(c[1], c[2])
    \/ \E r \in Regions : SolveCapitalInit(r)
    \/ \E c \in Cells : \E k \in Guess(c[1], c[2]) :
          SolveEconomics(c[1], c[2], k)

Spec == Init /\ [][Next]_vars

\* The damage block alone, its parameters varied.
InitDamage == Start(ChannelCases)

NextDamage ==
    \/ coacch_get_constraints
    \/ \E c \in Cells : SolveDamages(c[1], c[2])

SpecDamage == InitDamage /\ [][NextDamage]_vars

---------------------------------------------------------------------------
(* Properties of the economic block, checked under Spec.                   *)

\* C1: at every (t, r) whose investments and consumption constraints are
\* satisfied, investments + consumption equals GDP_net exactly, whatever
\* the savings rate and the value of GDP_net.
C1_SavingsPartition ==
    \A c \in Cells :
        res.consumption[c] = "sat" =>
            RAdd(x.investments[c], x.consumption[c]) = x.GDP_net[c]

C1_Witness ==
    \E c \in Cells :
        /\ res.consumption[c] = "sat"
        /\ par.sr = R(1, 5)
        /\ x.GDP_net[c] # I(0)
        /\ x.GDP_net[c] # x.GDP_gross[c]
        /\ x.investments[c] # x.consumption[c]

\* C2: with ignore_damages set the satisfied GDP_net constraint is
\* GDP_net = GDP_gross - abatement_costs whatever damage_costs holds;
\* with it unset, GDP_net = GDP_gross * (1 - damage_costs) - abatement_costs.
C2_NetOutput ==
    \A c \in Cells :
        res.GDP_net[c] = "sat" =>
            x.GDP_net[c] =
                IF par.ignore_damages
                THEN RSub(x.GDP_gross[c], par.abatement_costs[c])
                ELSE RSub(RMul(x.GDP_gross[c],
                               RSub(I(1), x.damage_costs[c])),
                          par.abatement_costs[c])

C2_Witness ==
    \E c \in Cells :
        /\ res.GDP_net[c] = "sat"
        /\ par.ignore_damages
        /\ IsNum(x.damage_costs[c])
        /\ x.damage_costs[c] # I(0)
        /\ par.abatement_costs[c] # I(0)
        /\ x.GDP_gross[c] # I(0)

\* damage_costs[c] and abatement_costs[c] are both non-negative.
NonNegativeCosts(c) ==
    /\ IsNum(x.damage_costs[c])
    /\ RLe(I(0), x.damage_costs[c])
    /\ RLe(I(0), par.abatement_costs[c])

\* C3, as amended: where the GDP_gross and GDP_net constraints are
\* satisfied, damage and abatement costs are non-negative and GDP_gross is
\* non-negative as well, GDP_net <= GDP_gross.
C3_NetBelowGross ==
    \A c \in Cells :
        /\ res.GDP_net[c] = "sat"
        /\ NonNegativeCosts(c)
        /\ RLe(I(0), x.GDP_gross[c])
        => RLe(x.GDP_net[c], x.GDP_gross[c])

C3_Witness ==
    \E c \in Cells :
        /\ res.GDP_net[c] = "sat"
        /\ ~par.ignore_damages
        /\ NonNegativeCosts(c)
        /\ RLt(I(0), x.damage_costs[c])
        /\ RLt(I(0), par.abatement_costs[c])
        /\ RLt(I(0), x.GDP_gross[c])
        /\ RLt(x.GDP_net[c], x.GDP_gross[c])

\* C3 as stated: GDP_net <= GDP_gross whenever damage and abatement costs
\* are non-negative, with nothing assumed on the sign of GDP_gross or TFP.
C3_AnySign ==
    \A c \in Cells :
        res.GDP_net[c] = "sat" /\ NonNegativeCosts(c)
        => RLe(x.GDP_net[c], x.GDP_gross[c])

\* Damages and abatement costs are zero at c.
ZeroCosts(c) ==
    /\ par.abatement_costs[c] = I(0)
    /\ par.ignore_damages \/ x.damage_costs[c] = I(0)

\* C6, as amended: for t > 0, with zero damages and abatement, the capital
\* stock satisfying the constraints obeys the recurrence taken at the
\* current step, capital_stock[t] = K_prev + dt * (sr * GDP_net(K_t)
\* - dk * K_t), where GDP_net(K_t) is the output of K_t = capital_stock[t].
C6_ImplicitStep ==
    \A t \in Time \ {0}, r \in Regions :
        /\ res.capital_stock[<<t, r>>] = "sat"
        /\ ZeroCosts(<<t, r>>)
        /\ ZeroCosts(<<t - 1, r>>)
        => /\ x.GDP_net[<<t, r>>]
              = calc_GDP(par.TFP[<<t, r>>], par.L[<<t, r>>],
                         soft_min(x.capital_stock[<<t, r>>]), par.alpha)
           /\ x.capital_stock[<<t, r>>]
              = RAdd(x.capital_stock[<<t - 1, r>>],
                     RMul(par.dt,
                          RSub(RMul(par.sr, x.GDP_net[<<t, r>>]),
                               RMul(par.dk, x.capital_stock[<<t, r>>]))))

\* The explicit step from the previous capital stock.
ExplicitStep(t, r) ==
    RAdd(x.capital_stock[<<t - 1, r>>],
         RMul(par.dt,
              RSub(RMul(par.sr, x.GDP_net[<<t - 1, r>>]),
                   RMul(par.dk, x.capital_stock[<<t - 1, r>>]))))

C6_Witness ==
    \E t \in Time \ {0}, r \in Regions :
        /\ res.capital_stock[<<t, r>>] = "sat"
        /\ ZeroCosts(<<t, r>>)
        /\ ZeroCosts(<<t - 1, r>>)
        /\ x.capital_stock[<<t, r>>] # x.capital_stock[<<t - 1, r>>]
        /\ x.capital_stock[<<t, r>>] # ExplicitStep(t, r)

\* C6 as stated: capital_stock[t] = K_prev + dt * (sr * GDP_net(K_prev)
\* - dk * K_prev) with K_prev = capital_stock[t - 1].
C6_ExplicitStep ==
    \A t \in Time \ {0}, r \in Regions :
        /\ res.capital_stock[<<t, r>>] = "sat"
        /\ ZeroCosts(<<t, r>>)
        /\ ZeroCosts(<<t - 1, r>>)
        => x.capital_stock[<<t, r>>] = ExplicitStep(t, r)

\* C7: capital_stock[0, r] is constrained to init_capitalstock_factor[r] *
\* GDP(year(0), r) only: the recurrence is skipped at t = 0 and is a
\* constraint at every t > 0, and the initial value the declaration gives
\* capital_stock[0, r] satisfies the initialisation constraint.
C7_CapitalInit ==
    \A r \in Regions :
        /\ res.capital_stock[<<0, r>>] \in {"none", "Skip"}
        /\ \A t \in Time \ {0} :
              res.capital_stock[<<t, r>>] \in {"none", "sat", "unsat"}
        /\ res.capital_stock_init[<<0, r>>] \in {"none", "sat"}
        /\ "capital_stock" \in declared =>
              x.capital_stock[<<0, r>>]
              = RMul(par.init_capitalstock_factor[r], par.GDP[<<0, r>>])

C7_Witness ==
    \E r \in Regions :
        /\ par.init_capitalstock_factor[r] # I(1)
        /\ res.capital_stock_init[<<0, r>>] = "sat"
        /\ res.capital_stock[<<0, r>>] = "Skip"
        /\ \E t \in Time \ {0} : res.capital_stock[<<t, r>>] = "sat"

\* C8: where the utility constraint is satisfied, utility equals
\* utility_less_mit when disutility_dmg_factor is 0 and utility_original
\* when it is 1.
C8_UtilityBlend ==
    \A c \in Cells :
        res.utility[c] = "sat" =>
            /\ par.disutility_dmg_factor = I(0) =>
                  x.utility[c] = x.utility_less_mit[c]
            /\ par.disutility_dmg_factor = I(1) =>
                  x.utility[c] = x.utility_original[c]

C8_Witness ==
    \E c \in Cells :
        /\ res.utility[c] = "sat"
        /\ par.disutility_dmg_factor = I(1)
        /\ x.utility_less_mit[c] # x.utility_original[c]
        /\ x.utility[c] = x.utility_original[c]

\* C10: the two get_constraints calls succeed in either order, each
\* whether or not the other block has run; the GDP_net rule is evaluated
\* successfully only with damage_costs declared or ignore_damages set,
\* raises AttributeError when neither holds, and never raises with
\* ignore_damages set.
C10_CallOrder ==
    /\ constraints \in {<<>>, EconRules, DamageRules,
                        EconRules \o DamageRules, DamageRules \o EconRules}
    /\ "capital_stock" \notin declared => ENABLED cobbdouglas_get_constraints
    /\ "damage_costs" \notin declared => ENABLED coacch_get_constraints
    /\ \A c \in Cells :
          /\ res.GDP_net[c] = "sat" =>
                par.ignore_damages \/ "damage_costs" \in declared
          /\ res.GDP_net[c] # "none" /\ par.ignore_damages =>
                res.GDP_net[c] = "sat"
          /\ /\ res.GDP_net[c] # "none"
             /\ ~par.ignore_damages
             /\ "damage_costs" \notin declared
             => res.GDP_net[c] = "AttributeError"

C10_Witness ==
    /\ par.ignore_damages
    /\ "damage_costs" \notin declared
    /\ \E c \in Cells : res.GDP_net[c] = "sat"

---------------------------------------------------------------------------
(* Properties of the damage block, checked under SpecDamage.               *)

\* The tag names at least one of the three forms.
Known(tag) ==
    \/ Contains(Linear, tag)
    \/ Contains(Quadratic, tag)
    \/ Contains(Logistic, tag)

\* The formula of the first form, in the order Linear, Quadratic, Logistic,
\* that the tag of k names.
FirstNamed(k, xv) ==
    IF Contains(Linear, k.form)
    THEN RDiv(RMul(RMul(k.a, k.b1), xv), I(100))
    ELSE IF Contains(Quadratic, k.form)
    THEN RDiv(RMul(k.a, RAdd(RMul(k.b1, xv), RMul(k.b2, RMul(xv, xv)))),
              I(100))
    ELSE RDiv(RMul(k.a, logistic(xv, k.b1, k.b2, k.b3)), I(100))

\* C4, as amended: a tag that contains none of the names Linear, Quadratic,
\* Logistic raises NotImplementedError and yields no value, in both
\* channels; a tag that contains one or more of them never does, and
\* selects the formula of the first name it contains in the order Linear,
\* Quadratic, Logistic.
C4_SubstringDispatch ==
    \A c \in Cells :
        /\ res.resid_damages[c] # "none" =>
              /\ res.resid_damages[c] = "NotImplementedError"
                 <=> ~Known(Coefs(par, c[2], FALSE).form)
              /\ res.resid_damages[c] = "NotImplementedError" =>
                    x.resid_damages[c] = None
              /\ res.resid_damages[c] = "sat" =>
                    x.resid_damages[c]
                    = RSub(FirstNamed(Coefs(par, c[2], FALSE),
                                      par.temperature[c[1]]),
                           FirstNamed(Coefs(par, c[2], FALSE), par.T0))
        /\ res.SLR_damages[c] # "none" =>
              /\ res.SLR_damages[c] = "NotImplementedError"
                 <=> ~Known(Coefs(par, c[2], TRUE).form)
              /\ res.SLR_damages[c] = "NotImplementedError" =>
                    x.SLR_damages[c] = None
              /\ res.SLR_damages[c] = "sat" =>
                    x.SLR_damages[c]
                    = FirstNamed(Coefs(par, c[2], TRUE), par.total_SLR[c[1]])

C4_Witness ==
    \E c \in Cells :
        /\ res.SLR_damages[c] = "NotImplementedError"
        /\ Coefs(par, c[2], TRUE).form = <<"C", "u", "b", "i", "c">>
        /\ x.SLR_damages[c] = None

\* C4 as stated: every tag that is not one of Linear, Quadratic, Logistic
\* raises NotImplementedError, in both channels.
C4_ExactTags ==
    \A c \in Cells :
        /\ /\ res.resid_damages[c] # "none"
           /\ Coefs(par, c[2], FALSE).form \notin {Linear, Quadratic, Logistic}
           => res.resid_damages[c] = "NotImplementedError"
        /\ /\ res.SLR_damages[c] # "none"
           /\ Coefs(par, c[2], TRUE).form \notin {Linear, Quadratic, Logistic}
           => res.SLR_damages[c] = "NotImplementedError"

\* The coefficient set k selects the logistic formula with b2 = -1, whose
\* normalisation term b1 / (1 + b2) divides by zero.
LogisticPole(k) ==
    /\ ~Contains(Linear, k.form)
    /\ ~Contains(Quadratic, k.form)
    /\ Contains(Logistic, k.form)
    /\ k.b2 = I(-1)

C9_DamageSum ==
    \A c \in Cells :
        res.damage_costs[c] = "sat" =>
            /\ x.damage_costs[c]
               = RAdd(x.resid_damages[c], x.SLR_damages[c])
            /\ x.resid_damages[c]
               = RSub(functional_form(par.temperature[c[1]], par, c[2],
                                      FALSE),
                      functional_form(par.T0, par, c[2], FALSE))
            /\ par.temperature[c[1]] = par.T0 => x.resid_damages[c] = I(0)
            /\ x.SLR_damages[c]
               = functional_form(par.total_SLR[c[1]], par, c[2], TRUE)

C9_Witness ==
    \E c \in Cells :
        /\ res.damage_costs[c] = "sat"
        /\ par.temperature[c[1]] # par.T0
        /\ functional_form(par.T0, par, c[2], FALSE) # I(0)
        /\ x.resid_damages[c] # I(0)
        /\ x.SLR_damages[c] # I(0)
        /\ \E r \in Regions :
              Coefs(par, r, TRUE) # Coefs(par, c[2], TRUE)

=============================================================================
